---- MODULE Spec2Model ----
(***************************************************************************)
(* Interning registries of the chemistry library: BaseChemicalEntity (the *)
(* generic registry), Element, ValenceElement and AtomicGroup.             *)
(*                                                                         *)
(* Python values are modelled as follows.                                  *)
(*   - An optional value (x | None) is a sequence: <<>> is None and <<v>>  *)
(*     is the value v.                                                     *)
(*   - A class variable that may be None (BaseChemicalEntity.registry and  *)
(*     key_dictionary) is a record [isNone, v].                            *)
(*   - A str is a TLA+ string; str(n) is ToString(n).                      *)
(*   - An object is a record with a kind field (its class);                *)
(*     isinstance(x, C) is a test of x.kind.                               *)
(*   - A dict is a function from its keys to its values.                   *)
(***************************************************************************)
EXTENDS Integers, Sequences, FiniteSets, TLC

VARIABLES
  registry,                \* registry[k]: the class variable `registry` of kind k
  key_dictionary,          \* key_dictionary[k]: key_dictionary (Base) / symbol_dictionary
  composition_dictionary,  \* composition_dictionary[k] (ValenceElement, AtomicGroup)
  generation,              \* generation[k]: how often clear_data of kind k was called
  scenario,                \* the kind whose registry the clients of this run use
  result,                  \* outcome of the last sequential call
  arg,                     \* the data (create) or data_list (extend) of the call just made
  pc,                      \* pc[t]: the statement thread t executes next
  call,                    \* call[t]: the call thread t is in, with its arguments
  local,                   \* local[t]: the local variables of thread t's call
  lock,                    \* lock[k]: the thread holding cls._lock of kind k, or NoThread
  outcome                  \* outcome[t]: how thread t's last call ended

vars == <<registry, key_dictionary, composition_dictionary, generation, scenario,
          result, arg, pc, call, local, lock, outcome>>

regvars == <<registry, key_dictionary, composition_dictionary, generation>>
thrvars == <<pc, call, local, lock, outcome>>

-----------------------------------------------------------------------------
(* Bounds of the model *)

MaxReg == 2        \* creates are not offered once a registry holds this many
MaxClears == 1     \* calls of clear_data (and load_data) per registry
MaxBatch == 2      \* length of a data_list passed to extend_data / load_data
MaxComp == 2       \* length of an AtomicGroup composition drawn as input
MaxCount == 2      \* largest multiplicity drawn as input

-----------------------------------------------------------------------------
(* Python values *)

None == <<>>
Some(v) == <<v>>
IsNone(o) == o = <<>>
Val(o) == o[1]

\* Truth value of an optional str: None and "" are both false.
Truthy(o) == o # <<>> /\ o[1] # ""

Kinds == {"B", "E", "V", "G"}

\* Any object that is no Element, ValenceElement, AtomicGroup or tuple.
Other == [kind |-> "other"]

\* A 2-tuple (element, count) of a composition.
Tuple(element, count) == [kind |-> "tuple", element |-> element, count |-> count]

\* f"{v:+}": a decimal with an explicit sign.
FormatSigned(v) == IF v >= 0 THEN "+" \o ToString(v) ELSE "-" \o ToString(0 - v)

RECURSIVE Join(_)
\* "".join(symbol_list)
Join(symbol_list) ==
  IF symbol_list = <<>> THEN ""
  ELSE Head(symbol_list) \o Join(Tail(symbol_list))

\* The outcome of a call or of a method: a returned value or a raised exception.
Return(v) == [raised |-> FALSE, exc |-> "", value |-> Some(v)]
Raise(e) == [raised |-> TRUE, exc |-> e, value |-> None]
Returned(r) == ~r.raised

\* Exceptions, named by the error they report:
\*   "KeyConflict"        ValueError raised by a key, symbol or valence collision
\*   "InvalidComposition" ValueError raised while deriving an AtomicGroup
\*   "MissingIdentifier"  ValueError raised when neither identifier nor data is given
\*   "IndexError", "KeyError", "TypeError", "AttributeError" as in Python

\* dict operations
Has(d, key) == key \in DOMAIN d
Put(d, key, value) == [x \in (DOMAIN d) \cup {key} |-> IF x = key THEN value ELSE d[x]]
EmptyDict == <<>>

-----------------------------------------------------------------------------
(* BaseChemicalEntity instances.  generate_key is abstract: the model's     *)
(* subclass keeps the keys to register in its creation record.             *)

BaseInit(index, data) ==
  [kind |-> "B", index |-> index, data |-> data]

BaseGenerateKey(self) == self.data.keys

-----------------------------------------------------------------------------
(* Element *)

ElementData(symbol) == [symbol |-> symbol]

ElementGenerateSymbol(index, data) ==
  IF Truthy(data.symbol) THEN Val(data.symbol)
  ELSE "<Element " \o ToString(index) \o ">"

ElementInit(index, data) ==
  [kind |-> "E", index |-> index, data |-> data,
   symbol |-> ElementGenerateSymbol(index, data)]

-----------------------------------------------------------------------------
(* ValenceElement *)

ValenceElementData(element, valence, symbol) ==
  [element |-> element, valence |-> valence, symbol |-> symbol]

ValenceElementGenerateSymbol(data) ==
  IF Truthy(data.symbol) THEN Val(data.symbol)
  ELSE data.element.symbol \o "(" \o FormatSigned(data.valence) \o ")"

ValenceElementInit(index, data) ==
  [kind |-> "V", index |-> index, data |-> data,
   element |-> data.element, valence |-> data.valence,
   composition |-> <<data.element, data.valence>>,
   symbol |-> ValenceElementGenerateSymbol(data)]

-----------------------------------------------------------------------------
(* AtomicGroup *)

AtomicGroupData(elements, valence, symbol_without_valence, symbol) ==
  [elements |-> elements, valence |-> valence,
   symbol_without_valence |-> symbol_without_valence, symbol |-> symbol]

RECURSIVE ValenceLoopIgnoresCount(_, _, _)
\* ValenceLoop adding the valence of a counted ValenceElement once.
ValenceLoopIgnoresCount(elements, i, valence) ==
  IF i > Len(elements) THEN Return(Some(valence))
  ELSE LET composition == elements[i] IN
    IF composition.kind = "E" THEN Return(None)
    ELSE IF composition.kind = "V"
      THEN ValenceLoopIgnoresCount(elements, i + 1, valence + composition.valence)
    ELSE IF composition.kind = "tuple"
      THEN LET element == composition.element
           IN IF element.kind = "E" THEN Return(None)
              ELSE IF element.kind = "V"
                THEN ValenceLoopIgnoresCount(elements, i + 1, valence + element.valence)
              ELSE Raise("InvalidComposition")
    ELSE Raise("InvalidComposition")

RECURSIVE ValenceLoopSkipsElement(_, _, _)
\* ValenceLoop going on to the next entry at a bare Element.
ValenceLoopSkipsElement(elements, i, valence) ==
  IF i > Len(elements) THEN Return(Some(valence))
  ELSE LET composition == elements[i] IN
    IF composition.kind = "E" THEN ValenceLoopSkipsElement(elements, i + 1, valence)
    ELSE IF composition.kind = "V"
      THEN ValenceLoopSkipsElement(elements, i + 1, valence + composition.valence)
    ELSE IF composition.kind = "tuple"
      THEN LET element == composition.element
               count == composition.count
           IN IF element.kind = "E" THEN ValenceLoopSkipsElement(elements, i + 1, valence)
              ELSE IF element.kind = "V"
                THEN ValenceLoopSkipsElement(elements, i + 1,
                                             valence + element.valence * count)
              ELSE Raise("InvalidComposition")
    ELSE Raise("InvalidComposition")

RECURSIVE ValenceLoop(_, _, _)
\* The for loop of generate_valence from its i-th iteration, the accumulator
\* holding valence.
ValenceLoop(elements, i, valence) ==
  IF i > Len(elements) THEN Return(Some(valence))
  ELSE LET composition == elements[i] IN
    IF composition.kind = "E" THEN Return(None)
    ELSE IF composition.kind = "V"
      THEN ValenceLoop(elements, i + 1, valence + composition.valence)
    ELSE IF composition.kind = "tuple"
      THEN LET element == composition.element
               count == composition.count
           IN IF element.kind = "E" THEN Return(None)
              ELSE IF element.kind = "V"
                THEN ValenceLoop(elements, i + 1, valence + element.valence * count)
              ELSE Raise("InvalidComposition")
    ELSE Raise("InvalidComposition")

GenerateValence(data) ==
  IF data.valence # None THEN Return(data.valence)
  ELSE ValenceLoop(data.elements, 1, 0)

RECURSIVE SymbolLoopAlwaysCount(_, _, _)
\* SymbolLoop writing the count of every pair, a count of 1 included.
SymbolLoopAlwaysCount(elements, i, symbol_list) ==
  IF i > Len(elements) THEN Return(Join(symbol_list))
  ELSE LET composition == elements[i] IN
    IF composition.kind = "E"
      THEN SymbolLoopAlwaysCount(elements, i + 1, Append(symbol_list, composition.symbol))
    ELSE IF composition.kind = "V"
      THEN SymbolLoopAlwaysCount(elements, i + 1,
                                 Append(symbol_list, composition.element.symbol))
    ELSE IF composition.kind = "tuple"
      THEN LET element == composition.element
               count == composition.count
               tail == <<ToString(count)>>
           IN IF element.kind = "E"
                THEN SymbolLoopAlwaysCount(elements, i + 1,
                                           Append(symbol_list, element.symbol) \o tail)
              ELSE IF element.kind = "V"
                THEN SymbolLoopAlwaysCount(elements, i + 1,
                                           Append(symbol_list, element.element.symbol) \o tail)
              ELSE Raise("InvalidComposition")
    ELSE Raise("InvalidComposition")

RECURSIVE SymbolLoop(_, _, _)
\* The for loop of generate_symbol_without_valence from its i-th iteration.
SymbolLoop(elements, i, symbol_list) ==
  IF i > Len(elements) THEN Return(Join(symbol_list))
  ELSE LET composition == elements[i] IN
    IF composition.kind = "E"
      THEN SymbolLoop(elements, i + 1, Append(symbol_list, composition.symbol))
    ELSE IF composition.kind = "V"
      THEN SymbolLoop(elements, i + 1, Append(symbol_list, composition.element.symbol))
    ELSE IF composition.kind = "tuple"
      THEN LET element == composition.element
               count == composition.count
               tail == IF count > 1 THEN <<ToString(count)>> ELSE <<>>
           IN IF element.kind = "E"
                THEN SymbolLoop(elements, i + 1, Append(symbol_list, element.symbol) \o tail)
              ELSE IF element.kind = "V"
                THEN SymbolLoop(elements, i + 1,
                                Append(symbol_list, element.element.symbol) \o tail)
              ELSE Raise("InvalidComposition")
    ELSE Raise("InvalidComposition")

GenerateSymbolWithoutValence(data) ==
  IF Truthy(data.symbol_without_valence) THEN Return(Val(data.symbol_without_valence))
  ELSE SymbolLoop(data.elements, 1, <<>>)

\* generate_symbol, reading self.valence and self.symbol_without_valence
GenerateSymbol(data, valence, symbol_without_valence) ==
  IF Truthy(data.symbol) THEN Val(data.symbol)
  ELSE IF valence # None
    THEN symbol_without_valence \o "(" \o FormatSigned(Val(valence)) \o ")"
  ELSE symbol_without_valence

\* _init: the three derivations in the order of the code; an exception of one
\* of them leaves _init.
AtomicGroupInit(index, data) ==
  LET v == GenerateValence(data) IN
  IF v.raised THEN v
  ELSE LET s == GenerateSymbolWithoutValence(data) IN
    IF s.raised THEN s
    ELSE Return([kind |-> "G", index |-> index, data |-> data,
                 composition |-> data.elements,
                 valence |-> Val(v.value),
                 symbol_without_valence |-> Val(s.value),
                 symbol |-> GenerateSymbol(data, Val(v.value), Val(s.value))])

-----------------------------------------------------------------------------
(* The class state of one kind: its class variables.  An identifier is a    *)
(* record with a type field: "none", "int", "str" or "tuple".              *)

NoneVar == [isNone |-> TRUE, v |-> <<>>]
Var(v) == [isNone |-> FALSE, v |-> v]

ClassState(reg, keys, comps, gen) ==
  [registry |-> reg, key_dictionary |-> keys, composition_dictionary |-> comps,
   generation |-> gen]

NoIdentifier == [type |-> "none"]
IntId(i) == [type |-> "int", i |-> i]
StrId(s) == [type |-> "str", s |-> s]
TupId(t) == [type |-> "tuple", t |-> t]
IdValue(identifier) ==
  CASE identifier.type = "int" -> identifier.i
    [] identifier.type = "str" -> identifier.s
    [] identifier.type = "tuple" -> identifier.t

\* What a call leaves: the class state and the call's outcome.
Leaves(C, out) == [state |-> C, out |-> out]

\* registry[i] for a Python index i already known to be in range
At(list, i) == list[i + 1]

\* list[i]: a negative index counts from the end, an index out of range raises
GetItem(list, i) ==
  IF 0 <= i /\ i < Len(list) THEN Return(list[i + 1])
  ELSE IF i < 0 /\ 0 - Len(list) <= i THEN Return(list[Len(list) + i + 1])
  ELSE Raise("IndexError")

RECURSIVE PutAll(_, _, _)
\* for key in keys: d[key] = value
PutAll(d, keys, value) ==
  IF keys = <<>> THEN d ELSE PutAll(Put(d, Head(keys), value), Tail(keys), value)

\* for key in keys: if key in d: raise
AnyKeyIn(d, keys) == \E j \in 1..Len(keys) : Has(d, keys[j])

-----------------------------------------------------------------------------
(* BaseChemicalEntity.__new__, clear_data *)

\* lines 55-58: a None registry or key_dictionary becomes an empty one
BaseEnsure(C) ==
  [C EXCEPT !.registry = IF @.isNone THEN Var(<<>>) ELSE @,
            !.key_dictionary = IF @.isNone THEN Var(EmptyDict) ELSE @]

\* BaseCreate with only the first key entered in key_dictionary.
BaseCreateFirstKeyOnly(C, data) ==
  LET index == Len(C.registry.v)
      instance == BaseInit(index, data)
      keys == BaseGenerateKey(instance)
  IN IF AnyKeyIn(C.key_dictionary.v, keys) THEN Leaves(C, Raise("KeyConflict"))
     ELSE Leaves([C EXCEPT !.registry.v = Append(@, instance),
                           !.key_dictionary.v = Put(@, Head(keys), instance.index)],
                 Return(instance))

\* lines 72-84, the creation under the lock
BaseCreate(C, data) ==
  LET index == Len(C.registry.v)
      instance == BaseInit(index, data)
      keys == BaseGenerateKey(instance)
  IN IF AnyKeyIn(C.key_dictionary.v, keys) THEN Leaves(C, Raise("KeyConflict"))
     ELSE Leaves([C EXCEPT !.registry.v = Append(@, instance),
                           !.key_dictionary.v = PutAll(@, keys, instance.index)],
                 Return(instance))

\* lines 60-70, the cases of the match statement without data; len() of,
\* membership in and subscription of None raise TypeError
BaseMatch(C, identifier) ==
  IF identifier.type = "none" THEN Raise("MissingIdentifier")
  ELSE IF identifier.type = "int" THEN
    IF C.registry.isNone THEN Raise("TypeError")
    ELSE IF 0 <= IdValue(identifier) /\ IdValue(identifier) < Len(C.registry.v)
      THEN Return(At(C.registry.v, IdValue(identifier)))
    ELSE Raise("IndexError")
  ELSE IF C.key_dictionary.isNone THEN Raise("TypeError")
  ELSE IF Has(C.key_dictionary.v, IdValue(identifier))
    THEN IF C.registry.isNone THEN Raise("TypeError")
         ELSE GetItem(C.registry.v, C.key_dictionary.v[IdValue(identifier)])
  ELSE Raise("TypeError")

BaseNew(C0, identifier, data) ==
  LET C == BaseEnsure(C0) IN
  IF data = None THEN Leaves(C, BaseMatch(C, identifier))
  ELSE BaseCreate(C, Val(data))

\* BaseClearData that leaves the registry list in place.
BaseClearDataKeepsList(C) ==
  [C EXCEPT !.key_dictionary = NoneVar, !.generation = @ + 1]

BaseClearData(C) ==
  [C EXCEPT !.registry = NoneVar, !.key_dictionary = NoneVar,
            !.generation = @ + 1]

-----------------------------------------------------------------------------
(* Element.__new__, clear_data *)

\* ElementCreate that inserts the instance at the front of the list.
ElementCreateAtFront(C, data) ==
  LET new_index == Len(C.registry.v)
      instance == ElementInit(new_index, data)
  IN IF Has(C.key_dictionary.v, instance.symbol) THEN Leaves(C, Raise("KeyConflict"))
     ELSE Leaves([C EXCEPT !.registry.v = <<instance>> \o @,
                           !.key_dictionary.v = Put(@, instance.symbol, instance.index)],
                 Return(instance))

ElementCreate(C, data) ==
  LET new_index == Len(C.registry.v)
      instance == ElementInit(new_index, data)
  IN IF Has(C.key_dictionary.v, instance.symbol) THEN Leaves(C, Raise("KeyConflict"))
     ELSE Leaves([C EXCEPT !.registry.v = Append(@, instance),
                           !.key_dictionary.v = Put(@, instance.symbol, instance.index)],
                 Return(instance))

\* ElementNew subscripting the list with any index Python accepts, a
\* negative one counting from the end.
ElementNewWrapsNegative(C, identifier, data) ==
  IF data = None THEN
    IF identifier.type = "none" THEN Leaves(C, Raise("MissingIdentifier"))
    ELSE IF identifier.type = "int" THEN
      Leaves(C, GetItem(C.registry.v, IdValue(identifier)))
    ELSE IF identifier.type = "str" THEN
      IF ~Has(C.key_dictionary.v, IdValue(identifier)) THEN Leaves(C, Raise("KeyError"))
      ELSE Leaves(C, GetItem(C.registry.v, C.key_dictionary.v[IdValue(identifier)]))
    ELSE Leaves(C, Raise("TypeError"))
  ELSE ElementCreate(C, Val(data))

ElementNew(C, identifier, data) ==
  IF data = None THEN
    IF identifier.type = "none" THEN Leaves(C, Raise("MissingIdentifier"))
    ELSE IF identifier.type = "int" THEN
      IF ~(0 <= IdValue(identifier) /\ IdValue(identifier) < Len(C.registry.v))
        THEN Leaves(C, Raise("IndexError"))
        ELSE Leaves(C, Return(At(C.registry.v, IdValue(identifier))))
    ELSE IF identifier.type = "str" THEN
      IF ~Has(C.key_dictionary.v, IdValue(identifier)) THEN Leaves(C, Raise("KeyError"))
      ELSE Leaves(C, GetItem(C.registry.v, C.key_dictionary.v[IdValue(identifier)]))
    ELSE Leaves(C, Raise("TypeError"))
  ELSE ElementCreate(C, Val(data))

ElementClearData(C) ==
  [C EXCEPT !.registry.v = <<>>, !.key_dictionary.v = EmptyDict,
            !.generation = @ + 1]

-----------------------------------------------------------------------------
(* ValenceElement.__new__, clear_data *)

\* ValenceElementCreate without the check of the (element, valence) pair.
ValenceElementCreateNoPairCheck(C, data) ==
  LET new_index == Len(C.registry.v)
      instance == ValenceElementInit(new_index, data)
  IN IF Has(C.key_dictionary.v, instance.symbol) THEN Leaves(C, Raise("KeyConflict"))
     ELSE Leaves([C EXCEPT !.registry.v = Append(@, instance),
                           !.key_dictionary.v = Put(@, instance.symbol, new_index),
                           !.composition_dictionary =
                              Put(@, <<instance.element, instance.valence>>, new_index)],
                 Return(instance))

\* ValenceElementCreate checking the (element, valence) pair only of a
\* record that gives no symbol.
ValenceElementCreateOverrideSkipsPair(C, data) ==
  LET new_index == Len(C.registry.v)
      instance == ValenceElementInit(new_index, data)
  IN IF Has(C.key_dictionary.v, instance.symbol) THEN Leaves(C, Raise("KeyConflict"))
     ELSE IF ~Truthy(data.symbol) /\ Has(C.composition_dictionary, instance.composition)
       THEN Leaves(C, Raise("KeyConflict"))
     ELSE Leaves([C EXCEPT !.registry.v = Append(@, instance),
                           !.key_dictionary.v = Put(@, instance.symbol, new_index),
                           !.composition_dictionary =
                              Put(@, <<instance.element, instance.valence>>, new_index)],
                 Return(instance))

ValenceElementCreate(C, data) ==
  LET new_index == Len(C.registry.v)
      instance == ValenceElementInit(new_index, data)
  IN IF Has(C.key_dictionary.v, instance.symbol) THEN Leaves(C, Raise("KeyConflict"))
     ELSE IF Has(C.composition_dictionary, instance.composition)
       THEN Leaves(C, Raise("KeyConflict"))
     ELSE Leaves([C EXCEPT !.registry.v = Append(@, instance),
                           !.key_dictionary.v = Put(@, instance.symbol, new_index),
                           !.composition_dictionary =
                              Put(@, <<instance.element, instance.valence>>, new_index)],
                 Return(instance))

ValenceElementNew(C, identifier, data) ==
  IF data = None THEN
    IF identifier.type = "none" THEN Leaves(C, Raise("MissingIdentifier"))
    ELSE IF identifier.type = "int" THEN
      IF ~(0 <= IdValue(identifier) /\ IdValue(identifier) < Len(C.registry.v))
        THEN Leaves(C, Raise("IndexError"))
        ELSE Leaves(C, Return(At(C.registry.v, IdValue(identifier))))
    ELSE IF identifier.type = "str" THEN
      IF ~Has(C.key_dictionary.v, IdValue(identifier)) THEN Leaves(C, Raise("KeyError"))
      ELSE Leaves(C, GetItem(C.registry.v, C.key_dictionary.v[IdValue(identifier)]))
    ELSE IF identifier.type = "tuple" THEN
      IF ~Has(C.composition_dictionary, IdValue(identifier)) THEN Leaves(C, Raise("KeyError"))
      ELSE Leaves(C, GetItem(C.registry.v, C.composition_dictionary[IdValue(identifier)]))
    ELSE Leaves(C, Raise("TypeError"))
  ELSE ValenceElementCreate(C, Val(data))

ValenceElementClearData(C) ==
  [C EXCEPT !.registry.v = <<>>, !.key_dictionary.v = EmptyDict,
            !.composition_dictionary = EmptyDict, !.generation = @ + 1]

-----------------------------------------------------------------------------
(* AtomicGroup.__new__, clear_data *)

AtomicGroupCreate(C, data) ==
  LET new_index == Len(C.registry.v)
      init == AtomicGroupInit(new_index, data)
  IN IF init.raised THEN Leaves(C, init)
     ELSE LET instance == Val(init.value) IN
       IF Has(C.key_dictionary.v, instance.symbol) THEN Leaves(C, Raise("KeyConflict"))
       ELSE Leaves([C EXCEPT !.registry.v = Append(@, instance),
                             !.key_dictionary.v = Put(@, instance.symbol, new_index)],
                   Return(instance))

AtomicGroupNew(C, identifier, data) ==
  IF data = None THEN
    IF identifier.type = "none" THEN Leaves(C, Raise("MissingIdentifier"))
    ELSE IF identifier.type = "int" THEN
      IF ~(0 <= IdValue(identifier) /\ IdValue(identifier) < Len(C.registry.v))
        THEN Leaves(C, Raise("IndexError"))
        ELSE Leaves(C, Return(At(C.registry.v, IdValue(identifier))))
    ELSE IF identifier.type = "str" THEN
      IF ~Has(C.key_dictionary.v, IdValue(identifier)) THEN Leaves(C, Raise("KeyError"))
      ELSE Leaves(C, GetItem(C.registry.v, C.key_dictionary.v[IdValue(identifier)]))
    ELSE IF identifier.type = "tuple" THEN
      IF ~Has(C.composition_dictionary, IdValue(identifier)) THEN Leaves(C, Raise("KeyError"))
      ELSE Leaves(C, GetItem(C.registry.v, C.composition_dictionary[IdValue(identifier)]))
    ELSE Leaves(C, Raise("TypeError"))
  ELSE AtomicGroupCreate(C, Val(data))

AtomicGroupClearData(C) ==
  [C EXCEPT !.registry.v = <<>>, !.key_dictionary.v = EmptyDict,
            !.composition_dictionary = EmptyDict, !.generation = @ + 1]

-----------------------------------------------------------------------------
(* The calls of a kind's class *)

\* cls(identifier, data)
New(k, C, identifier, data) ==
  CASE k = "B" -> BaseNew(C, identifier, data)
    [] k = "E" -> ElementNew(C, identifier, data)
    [] k = "V" -> ValenceElementNew(C, identifier, data)
    [] k = "G" -> AtomicGroupNew(C, identifier, data)

\* cls.clear_data()
Clear(k, C) ==
  CASE k = "B" -> BaseClearData(C)
    [] k = "E" -> ElementClearData(C)
    [] k = "V" -> ValenceElementClearData(C)
    [] k = "G" -> AtomicGroupClearData(C)

RECURSIVE ExtendLoop(_, _, _, _)
\* The loop of extend_data from its i-th record, made holding the instances
\* created so far; the first exception ends the call.
ExtendLoop(k, C, data_list, made) ==
  IF data_list = <<>> THEN Leaves(C, Return(IF k = "B" THEN None ELSE made))
  ELSE LET r == New(k, C, NoIdentifier, Some(Head(data_list))) IN
    IF r.out.raised THEN r
    ELSE ExtendLoop(k, r.state, Tail(data_list), Append(made, Val(r.out.value)))

\* extend_data undoing the creations it made when a later record fails.
ExtendDataAtomic(k, C, data_list) ==
  LET r == ExtendLoop(k, C, data_list, <<>>) IN
  IF r.out.raised THEN Leaves(C, r.out) ELSE r

\* cls.extend_data(data_list)
ExtendData(k, C, data_list) == ExtendLoop(k, C, data_list, <<>>)

\* BaseChemicalEntity.load_data(data_list)
LoadData(k, C, data_list) == ExtendData(k, Clear(k, C), data_list)

-----------------------------------------------------------------------------
(* State of the program *)

Threads == {"t1", "t2"}
NoThread == "none"

\* The class variables as the class statement leaves them.
InitialClass(k) ==
  IF k = "B" THEN ClassState(NoneVar, NoneVar, EmptyDict, 0)
  ELSE ClassState(Var(<<>>), Var(EmptyDict), EmptyDict, 0)

\* The elements and valence elements registered before groups are made
\* (the first entries of the element table): the instances that creating
\* O, H and then O(-2), H(+1) in empty classes gives, and the class
\* variables after these creations.
SeedEO == ElementInit(0, ElementData(Some("O")))
SeedEH == ElementInit(1, ElementData(Some("H")))

SeedElements ==
  ClassState(Var(<<SeedEO, SeedEH>>),
             Var(Put(Put(EmptyDict, SeedEO.symbol, 0), SeedEH.symbol, 1)),
             EmptyDict, 0)

SeedVO == ValenceElementInit(0, ValenceElementData(SeedEO, 0 - 2, None))
SeedVH == ValenceElementInit(1, ValenceElementData(SeedEH, 1, None))

SeedValenceElements ==
  ClassState(Var(<<SeedVO, SeedVH>>),
             Var(Put(Put(EmptyDict, SeedVO.symbol, 0), SeedVH.symbol, 1)),
             Put(Put(EmptyDict, SeedVO.composition, 0), SeedVH.composition, 1), 0)

\* A kind the clients of a run do not create in holds what it was loaded with.
StartClass(k, active) ==
  IF k \in active THEN InitialClass(k)
  ELSE IF k = "E" THEN SeedElements
  ELSE IF k = "V" THEN SeedValenceElements
  ELSE InitialClass(k)

ClassOf(k) ==
  ClassState(registry[k], key_dictionary[k], composition_dictionary[k], generation[k])

\* Install for class variables that the kinds share.
InstallShared(k, C) ==
  /\ registry' = [j \in Kinds |-> C.registry]
  /\ key_dictionary' = [j \in Kinds |-> C.key_dictionary]
  /\ composition_dictionary' = [j \in Kinds |-> C.composition_dictionary]
  /\ generation' = [generation EXCEPT ![k] = C.generation]

\* The class variables of kind k become those of C.
Install(k, C) ==
  /\ registry' = [registry EXCEPT ![k] = C.registry]
  /\ key_dictionary' = [key_dictionary EXCEPT ![k] = C.key_dictionary]
  /\ composition_dictionary' =
       [composition_dictionary EXCEPT ![k] = C.composition_dictionary]
  /\ generation' = [generation EXCEPT ![k] = C.generation]

NoResult == [op |-> "none", out |-> Return(None)]
Result(op, out) == [op |-> op, out |-> out]

InitClasses(active) ==
  /\ registry = [k \in Kinds |-> StartClass(k, active).registry]
  /\ key_dictionary = [k \in Kinds |-> StartClass(k, active).key_dictionary]
  /\ composition_dictionary =
       [k \in Kinds |-> StartClass(k, active).composition_dictionary]
  /\ generation = [k \in Kinds |-> 0]

\* No call, and the locals of a call that has built no instance yet.
NoCall == [op |-> "none", identifier |-> NoIdentifier, data |-> None]
NoLocal == [instance |-> None, i |-> 0]

InitThreads ==
  /\ pc = [t \in Threads |-> "idle"]
  /\ call = [t \in Threads |-> NoCall]
  /\ local = [t \in Threads |-> NoLocal]
  /\ lock = [k \in Kinds |-> NoThread]
  /\ outcome = [t \in Threads |-> NoResult]

\* The kinds whose class the clients call.
Active == {scenario}

\* The list in registry[k] (empty while the class variable is None).
List(k) == registry[k].v

-----------------------------------------------------------------------------
(* Inputs of the calls *)

BaseKeys == {"a", "b", "c"}
BaseInputs ==
  {[keys |-> <<x>>] : x \in BaseKeys} \cup {[keys |-> <<"a", "b">>], [keys |-> <<"b", "c">>]}

ElementSymbols == {None, Some(""), Some("H"), Some("O"), Some("<Element 1>")}
ElementInputs == {ElementData(s) : s \in ElementSymbols}

Valences == {0 - 2, 1}
ValenceSymbols == {None, Some("H(+1)")}
Registered(k) == {List(k)[i] : i \in 1..Len(List(k))}
ValenceElementInputs ==
  {ValenceElementData(e, v, s) : e \in Registered("E"), v \in Valences, s \in ValenceSymbols}

\* Creation records of groups over the registered valence elements O(-2) and
\* H(+1), the element H, the groups registered so far, and an object that is
\* no component.
VO == At(List("V"), 0)
VH == At(List("V"), 1)
EH == At(List("E"), 1)
GroupSamples ==
  {AtomicGroupData(<<VO, VH>>, None, None, None),
   AtomicGroupData(<<VH, VO>>, None, None, None),
   AtomicGroupData(<<Tuple(VH, 2), VO>>, None, None, None),
   AtomicGroupData(<<EH, VO>>, None, None, None),
   AtomicGroupData(<<EH>>, None, None, Some("OH(-1)")),
   AtomicGroupData(<<Other>>, None, None, None)}
  \cup {AtomicGroupData(<<Tuple(g, 2)>>, None, None, None) : g \in Registered("G")}
  \cup {AtomicGroupData(<<Tuple(g, 2)>>, Some(0), Some("X"), None) : g \in Registered("G")}

Inputs(k) ==
  CASE k = "B" -> BaseInputs
    [] k = "E" -> ElementInputs
    [] k = "V" -> ValenceElementInputs
    [] k = "G" -> GroupSamples

\* data_list arguments: the lists of n records
Lists(S, n) == [1..n -> S]

\* Keys looked up: the symbols and compositions the inputs can derive, and
\* some that nothing derives.
LookupKeys(k) ==
  CASE k = "B" -> {StrId(x) : x \in BaseKeys}
    [] k = "E" -> {StrId(x) : x \in {"H", "O", "<Element 0>", "<Element 1>", "He"}}
    [] k = "V" -> {StrId(x) : x \in {"H(+1)", "O(-2)", "O(+1)", "Fe(+2)"}}
                  \cup {TupId(<<e, v>>) : e \in Registered("E"), v \in Valences}
    [] k = "G" -> {StrId(x) : x \in {"OH(-1)", "HO(-1)", "H2O(+0)", "HO", "X(+0)", "CO3"}}
                  \cup {TupId(d.elements) : d \in GroupSamples}

-----------------------------------------------------------------------------
(* The calls, made one at a time *)

\* cls(data=data)
Create(k, data) ==
  /\ k \in Active
  /\ Len(List(k)) < MaxReg
  /\ LET r == New(k, ClassOf(k), NoIdentifier, Some(data)) IN
       /\ Install(k, r.state)
       /\ result' = Result("create", r.out)
  /\ arg' = Some(data)
  /\ UNCHANGED <<scenario, thrvars>>

\* cls(i)
GetByIndex(k, i) ==
  /\ k \in Active
  /\ LET r == New(k, ClassOf(k), IntId(i), None) IN
       /\ Install(k, r.state)
       /\ result' = Result("get_by_index", r.out)
  /\ arg' = None
  /\ UNCHANGED <<scenario, thrvars>>

\* cls(key)
GetByKey(k, identifier) ==
  /\ k \in Active
  /\ LET r == New(k, ClassOf(k), identifier, None) IN
       /\ Install(k, r.state)
       /\ result' = Result("get_by_key", r.out)
  /\ arg' = None
  /\ UNCHANGED <<scenario, thrvars>>

\* cls()
GetNothing(k) ==
  /\ k \in Active
  /\ LET r == New(k, ClassOf(k), NoIdentifier, None) IN
       /\ Install(k, r.state)
       /\ result' = Result("get_nothing", r.out)
  /\ arg' = None
  /\ UNCHANGED <<scenario, thrvars>>

\* cls.extend_data(data_list)
Extend(k, data_list) ==
  /\ k \in Active
  /\ Len(List(k)) + Len(data_list) <= MaxReg
  /\ LET r == ExtendData(k, ClassOf(k), data_list) IN
       /\ Install(k, r.state)
       /\ result' = Result("extend", r.out)
  /\ arg' = Some(data_list)
  /\ UNCHANGED <<scenario, thrvars>>

\* cls.clear_data()
ClearData(k) ==
  /\ k \in Active
  /\ generation[k] < MaxClears
  /\ Install(k, Clear(k, ClassOf(k)))
  /\ result' = Result("clear", Return(None))
  /\ arg' = None
  /\ UNCHANGED <<scenario, thrvars>>

\* cls.load_data(data_list), a method of BaseChemicalEntity only
Load(k, data_list) ==
  /\ k \in Active
  /\ k = "B"
  /\ generation[k] < MaxClears
  /\ LET r == LoadData(k, ClassOf(k), data_list) IN
       /\ Install(k, r.state)
       /\ result' = Result("load", r.out)
  /\ arg' = None
  /\ UNCHANGED <<scenario, thrvars>>

Init ==
  /\ scenario \in Kinds
  /\ InitClasses({scenario})
  /\ result = NoResult
  /\ arg = None
  /\ InitThreads

Next ==
  \/ \E k \in Active : \E data \in Inputs(k) : Create(k, data)
  \/ \E k \in Active : \E i \in (0 - 1)..MaxReg : GetByIndex(k, i)
  \/ \E k \in Active : \E identifier \in LookupKeys(k) : GetByKey(k, identifier)
  \/ \E k \in Active : GetNothing(k)
  \/ \E k \in Active : \E n \in 0..MaxBatch : \E data_list \in Lists(Inputs(k), n) : Extend(k, data_list)
  \/ \E k \in Active : ClearData(k)
  \/ \E k \in Active : \E n \in 0..MaxBatch : \E data_list \in Lists(Inputs(k), n) : Load(k, data_list)

Spec == Init /\ [][Next]_vars

-----------------------------------------------------------------------------
(* The calls of the element table's loader, which loads the registries of   *)
(* Element and ValenceElement through cls.load_data.                        *)

\* cls.load_data(data_list) on Element, ValenceElement or AtomicGroup: the
\* class defines no load_data and inherits none, so the attribute reference
\* raises before anything is cleared or created.
LoadMissing(k, data_list) ==
  /\ k \in Active
  /\ k # "B"
  /\ result' = Result("load", Raise("AttributeError"))
  /\ arg' = None
  /\ UNCHANGED <<regvars, scenario, thrvars>>

NextLoad ==
  \/ Next
  \/ \E k \in Active : \E n \in 0..MaxBatch :
       \E data_list \in Lists(Inputs(k), n) : LoadMissing(k, data_list)

SpecLoad == Init /\ [][NextLoad]_vars

-----------------------------------------------------------------------------
(* One creation of an AtomicGroup, for every creation record over the       *)
(* registered components.  The registries hold the seed elements and        *)
(* valence elements and two groups: OH, of valence -1, and HO, made of the  *)
(* bare element H and O(-2), of indeterminate valence.                      *)

SeedOH ==
  Val(AtomicGroupInit(0, AtomicGroupData(<<SeedVO, SeedVH>>, None, None, None)).value)
SeedHO ==
  Val(AtomicGroupInit(1, AtomicGroupData(<<SeedEH, SeedVO>>, None, None, None)).value)

SeedGroups ==
  ClassState(Var(<<SeedOH, SeedHO>>),
             Var(Put(Put(EmptyDict, SeedOH.symbol, 0), SeedHO.symbol, 1)),
             EmptyDict, 0)

\* What a composition entry is drawn from: an element, two valence elements,
\* the two registered groups, and an object that is no component.
Components == {SeedEH, SeedVO, SeedVH, SeedOH, SeedHO, Other}

\* Counts that are not positive, which the int of a tuple entry may hold.
NonPositive == {0 - 1, 0}

\* An entry is a component or a tuple (component, count); the counts that
\* are not positive are drawn for an Element and a ValenceElement.
Entries ==
  Components \cup {Tuple(c, n) : c \in Components, n \in 1..MaxCount}
             \cup {Tuple(c, n) : c \in {SeedEH, SeedVO}, n \in NonPositive}

Compositions == UNION {[1..n -> Entries] : n \in 0..MaxComp}

GroupInputs ==
  {AtomicGroupData(c, v, b, s) :
     c \in Compositions, v \in {None, Some(3)}, b \in {None, Some("X")},
     s \in {None, Some("-Me")}}

\* AtomicGroup(data=arg), the call the client set out to make
CreateArg ==
  /\ arg # None
  /\ result.op = "none"
  /\ LET r == New("G", ClassOf("G"), NoIdentifier, arg) IN
       /\ Install("G", r.state)
       /\ result' = Result("create", r.out)
  /\ UNCHANGED <<scenario, arg, thrvars>>

\* AtomicGroup(symbol) for the symbol of the group just created
LookupCreated ==
  /\ result.op = "create"
  /\ Returned(result.out)
  /\ LET r == New("G", ClassOf("G"), StrId(Val(result.out.value).symbol), None) IN
       /\ Install("G", r.state)
       /\ result' = Result("get_by_key", r.out)
  /\ UNCHANGED <<scenario, arg, thrvars>>

InitGroup ==
  /\ scenario = "G"
  /\ registry = [k \in Kinds |-> IF k = "G" THEN SeedGroups.registry
                                 ELSE StartClass(k, {"G"}).registry]
  /\ key_dictionary = [k \in Kinds |-> IF k = "G" THEN SeedGroups.key_dictionary
                                       ELSE StartClass(k, {"G"}).key_dictionary]
  /\ composition_dictionary =
       [k \in Kinds |-> IF k = "G" THEN SeedGroups.composition_dictionary
                        ELSE StartClass(k, {"G"}).composition_dictionary]
  /\ generation = [k \in Kinds |-> 0]
  /\ result = NoResult
  /\ arg \in {Some(d) : d \in GroupInputs}
  /\ InitThreads

NextGroup == CreateArg \/ LookupCreated

SpecGroup == InitGroup /\ [][NextGroup]_vars

-----------------------------------------------------------------------------
(* The calls of two threads on the class of one kind, a statement at a      *)
(* time.  pc[t] names the statement thread t executes next: "n55".."n58"    *)
(* the tests and assignments that open BaseChemicalEntity.__new__, "match"  *)
(* the lookup, "acquire", "init", "check", "append", "publish", "publish2"  *)
(* the creation, "c_acquire", "c_registry", "c_keys", "c_comps" clear_data. *)
(* An exception raised inside a with block releases the lock.               *)

ConcKinds == {"B", "E", "V"}

ConcInputs(k) ==
  CASE k = "B" -> {[keys |-> <<"a">>], [keys |-> <<"a", "b">>]}
    [] k = "E" -> {ElementData(Some("H")), ElementData(Some("O"))}
    [] k = "V" -> {ValenceElementData(SeedEH, 1, None),
                   ValenceElementData(SeedEH, 1, Some("X"))}
    [] k = "G" -> {AtomicGroupData(<<SeedVO, SeedVH>>, None, None, None),
                   AtomicGroupData(<<Other>>, None, None, None)}

ConcLookups(k) ==
  CASE k = "B" -> {IntId(0), StrId("a")}
    [] k = "E" -> {IntId(0), StrId("H")}
    [] k = "V" -> {IntId(0), StrId("H(+1)"), TupId(<<SeedEH, 1>>)}
    [] k = "G" -> {IntId(0), StrId("OH(-1)"), TupId(<<SeedVO, SeedVH>>)}

\* instance._init(index, data) of kind k: the instance, or the exception of
\* a derivation of AtomicGroup._init
InstanceOf(k, index, data) ==
  CASE k = "B" -> Return(BaseInit(index, data))
    [] k = "E" -> Return(ElementInit(index, data))
    [] k = "V" -> Return(ValenceElementInit(index, data))
    [] k = "G" -> AtomicGroupInit(index, data)

\* The exception the conflict checks of kind k raise for instance e, "" when
\* they raise none.
CheckOutcome(k, e) ==
  CASE k = "B" ->
         IF key_dictionary[k].isNone THEN "TypeError"
         ELSE IF AnyKeyIn(key_dictionary[k].v, BaseGenerateKey(e)) THEN "KeyConflict"
         ELSE ""
    [] k = "E" -> IF Has(key_dictionary[k].v, e.symbol) THEN "KeyConflict" ELSE ""
    [] k = "V" ->
         IF Has(key_dictionary[k].v, e.symbol) THEN "KeyConflict"
         ELSE IF Has(composition_dictionary[k], e.composition) THEN "KeyConflict"
         ELSE ""
    [] k = "G" -> IF Has(key_dictionary[k].v, e.symbol) THEN "KeyConflict" ELSE ""

\* Thread t's call ends with out.
Finish(t, out) ==
  /\ pc' = [pc EXCEPT ![t] = "idle"]
  /\ outcome' = [outcome EXCEPT ![t] = Result(call[t].op, out)]
  /\ local' = [local EXCEPT ![t] = NoLocal]

\* Thread t leaves the with block of kind k's lock, its call ending with out.
Leave(t, k, out) ==
  /\ Finish(t, out)
  /\ lock' = [lock EXCEPT ![k] = NoThread]

Goto(t, label) == pc' = [pc EXCEPT ![t] = label]

\* cls(data=data) is called
CallCreate(t, k, data) ==
  /\ pc[t] = "idle"
  /\ Len(List(k)) < MaxReg
  /\ call' = [call EXCEPT ![t] = [op |-> "create", identifier |-> NoIdentifier,
                                  data |-> Some(data)]]
  /\ Goto(t, IF k = "B" THEN "n55" ELSE "acquire")
  /\ outcome' = [outcome EXCEPT ![t] = NoResult]
  /\ UNCHANGED <<regvars, scenario, result, arg, local, lock>>

\* cls(identifier) is called
CallLookup(t, k, identifier) ==
  /\ pc[t] = "idle"
  /\ call' = [call EXCEPT ![t] = [op |-> "get", identifier |-> identifier,
                                  data |-> None]]
  /\ Goto(t, IF k = "B" THEN "n55" ELSE "match")
  /\ outcome' = [outcome EXCEPT ![t] = NoResult]
  /\ UNCHANGED <<regvars, scenario, result, arg, local, lock>>

\* cls.clear_data() is called
CallClear(t, k) ==
  /\ pc[t] = "idle"
  /\ generation[k] < MaxClears
  /\ generation' = [generation EXCEPT ![k] = @ + 1]
  /\ call' = [call EXCEPT ![t] = [op |-> "clear", identifier |-> NoIdentifier,
                                  data |-> None]]
  /\ Goto(t, "c_acquire")
  /\ outcome' = [outcome EXCEPT ![t] = NoResult]
  /\ UNCHANGED <<registry, key_dictionary, composition_dictionary, scenario, result,
                 arg, local, lock>>

\* line 55: if cls.registry is None
TestRegistry(t) ==
  /\ pc[t] = "n55"
  /\ Goto(t, IF registry["B"].isNone THEN "n56" ELSE "n57")
  /\ UNCHANGED <<regvars, scenario, result, arg, call, local, lock, outcome>>

\* line 56: cls.registry = []
SetRegistry(t) ==
  /\ pc[t] = "n56"
  /\ registry' = [registry EXCEPT !["B"] = Var(<<>>)]
  /\ Goto(t, "n57")
  /\ UNCHANGED <<key_dictionary, composition_dictionary, generation, scenario, result,
                 arg, call, local, lock, outcome>>

\* The statement after line 58: the lookup cases or the with statement.
AfterEnsure(t) == IF call[t].op = "create" THEN "acquire" ELSE "match"

\* line 57: if cls.key_dictionary is None
TestKeys(t) ==
  /\ pc[t] = "n57"
  /\ Goto(t, IF key_dictionary["B"].isNone THEN "n58" ELSE AfterEnsure(t))
  /\ UNCHANGED <<regvars, scenario, result, arg, call, local, lock, outcome>>

\* line 58: cls.key_dictionary = {}
SetKeys(t) ==
  /\ pc[t] = "n58"
  /\ key_dictionary' = [key_dictionary EXCEPT !["B"] = Var(EmptyDict)]
  /\ Goto(t, AfterEnsure(t))
  /\ UNCHANGED <<registry, composition_dictionary, generation, scenario, result,
                 arg, call, local, lock, outcome>>

\* The lookup by identifier, which takes no lock.
Match(t, k) ==
  /\ pc[t] = "match"
  /\ Finish(t, IF k = "B" THEN BaseMatch(ClassOf(k), call[t].identifier)
               ELSE New(k, ClassOf(k), call[t].identifier, None).out)
  /\ UNCHANGED <<regvars, scenario, result, arg, call, lock>>

\* with cls._lock: the thread waits until no thread holds the lock
Acquire(t, k) ==
  /\ pc[t] \in {"acquire", "c_acquire"}
  /\ lock[k] = NoThread
  /\ lock' = [lock EXCEPT ![k] = t]
  /\ Goto(t, IF pc[t] = "acquire" THEN "init" ELSE "c_registry")
  /\ UNCHANGED <<regvars, scenario, result, arg, call, local, outcome>>

\* instance._init(len(cls.registry), data)
InitInstance(t, k) ==
  /\ pc[t] = "init"
  /\ IF registry[k].isNone
       THEN Leave(t, k, Raise("TypeError"))
       ELSE LET made == InstanceOf(k, Len(List(k)), Val(call[t].data)) IN
            IF made.raised
              THEN Leave(t, k, made)
              ELSE /\ local' = [local EXCEPT ![t] =
                        [instance |-> Some(Val(made.value)), i |-> 1]]
                   /\ Goto(t, "check")
                   /\ UNCHANGED <<lock, outcome>>
  /\ UNCHANGED <<regvars, scenario, result, arg, call>>

\* CheckKeys raising without leaving the with block: the lock stays held.
CheckKeysKeepsLock(t, k) ==
  /\ pc[t] = "check"
  /\ LET exc == CheckOutcome(k, Val(local[t].instance)) IN
       IF exc # "" THEN Finish(t, Raise(exc)) /\ UNCHANGED lock
       ELSE Goto(t, "append") /\ UNCHANGED <<local, lock, outcome>>
  /\ UNCHANGED <<regvars, scenario, result, arg, call>>

\* the conflict checks before anything is registered
CheckKeys(t, k) ==
  /\ pc[t] = "check"
  /\ LET exc == CheckOutcome(k, Val(local[t].instance)) IN
       IF exc # "" THEN Leave(t, k, Raise(exc))
       ELSE Goto(t, "append") /\ UNCHANGED <<local, lock, outcome>>
  /\ UNCHANGED <<regvars, scenario, result, arg, call>>

\* cls.registry.append(instance)
AppendInstance(t, k) ==
  /\ pc[t] = "append"
  /\ IF registry[k].isNone
       THEN Leave(t, k, Raise("AttributeError")) /\ UNCHANGED registry
       ELSE /\ registry' = [registry EXCEPT ![k].v = Append(@, Val(local[t].instance))]
            /\ Goto(t, "publish")
            /\ UNCHANGED <<local, lock, outcome>>
  /\ UNCHANGED <<key_dictionary, composition_dictionary, generation, scenario, result,
                 arg, call>>

\* cls.key_dictionary[key] = instance.index for the next key (Base), or
\* cls.symbol_dictionary[instance.symbol] = index; the call returns after its
\* last assignment.
PublishKey(t, k) ==
  /\ pc[t] = "publish"
  /\ LET e == Val(local[t].instance)
         keys == IF k = "B" THEN BaseGenerateKey(e) ELSE <<e.symbol>>
         i == local[t].i
     IN IF key_dictionary[k].isNone
          THEN Leave(t, k, Raise("TypeError")) /\ UNCHANGED key_dictionary
          ELSE /\ key_dictionary' = [key_dictionary EXCEPT ![k].v = Put(@, keys[i], e.index)]
               /\ IF i < Len(keys)
                    THEN /\ local' = [local EXCEPT ![t].i = i + 1]
                         /\ UNCHANGED <<pc, lock, outcome>>
                    ELSE IF k = "V"
                      THEN Goto(t, "publish2") /\ UNCHANGED <<local, lock, outcome>>
                    ELSE Leave(t, k, Return(e))
  /\ UNCHANGED <<registry, composition_dictionary, generation, scenario, result, arg,
                 call>>

\* cls.composition_dictionary[(instance.element, instance.valence)] = new_index
PublishComposition(t) ==
  /\ pc[t] = "publish2"
  /\ LET e == Val(local[t].instance) IN
       /\ composition_dictionary' =
            [composition_dictionary EXCEPT !["V"] = Put(@, <<e.element, e.valence>>, e.index)]
       /\ Leave(t, "V", Return(e))
  /\ UNCHANGED <<registry, key_dictionary, generation, scenario, result, arg, call>>

\* cls.registry = None (Base), cls.registry.clear()
ClearRegistry(t, k) ==
  /\ pc[t] = "c_registry"
  /\ registry' = [registry EXCEPT ![k] = IF k = "B" THEN NoneVar ELSE Var(<<>>)]
  /\ Goto(t, "c_keys")
  /\ UNCHANGED <<key_dictionary, composition_dictionary, generation, scenario, result,
                 arg, call, local, lock, outcome>>

\* cls.key_dictionary = None (Base), cls.symbol_dictionary.clear()
ClearKeys(t, k) ==
  /\ pc[t] = "c_keys"
  /\ key_dictionary' = [key_dictionary EXCEPT ![k] = IF k = "B" THEN NoneVar
                                                    ELSE Var(EmptyDict)]
  /\ IF k \in {"V", "G"} THEN Goto(t, "c_comps") /\ UNCHANGED <<local, lock, outcome>>
     ELSE Leave(t, k, Return(None))
  /\ UNCHANGED <<registry, composition_dictionary, generation, scenario, result, arg,
                 call>>

\* cls.composition_dictionary.clear()
ClearCompositions(t, k) ==
  /\ pc[t] = "c_comps"
  /\ composition_dictionary' = [composition_dictionary EXCEPT ![k] = EmptyDict]
  /\ Leave(t, k, Return(None))
  /\ UNCHANGED <<registry, key_dictionary, generation, scenario, result, arg, call>>

InitConc ==
  /\ scenario \in ConcKinds
  /\ InitClasses({scenario})
  /\ result = NoResult
  /\ arg = None
  /\ InitThreads

NextConc ==
  \/ \E t \in Threads : \E k \in Active : \E data \in ConcInputs(k) : CallCreate(t, k, data)
  \/ \E t \in Threads : \E k \in Active : \E identifier \in ConcLookups(k) : CallLookup(t, k, identifier)
  \/ \E t \in Threads : \E k \in Active : CallClear(t, k)
  \/ \E t \in Threads : TestRegistry(t)
  \/ \E t \in Threads : SetRegistry(t)
  \/ \E t \in Threads : TestKeys(t)
  \/ \E t \in Threads : SetKeys(t)
  \/ \E t \in Threads : \E k \in Active : Match(t, k)
  \/ \E t \in Threads : \E k \in Active : Acquire(t, k)
  \/ \E t \in Threads : \E k \in Active : InitInstance(t, k)
  \/ \E t \in Threads : \E k \in Active : CheckKeys(t, k)
  \/ \E t \in Threads : \E k \in Active : AppendInstance(t, k)
  \/ \E t \in Threads : \E k \in Active : PublishKey(t, k)
  \/ \E t \in Threads : PublishComposition(t)
  \/ \E t \in Threads : \E k \in Active : ClearRegistry(t, k)
  \/ \E t \in Threads : \E k \in Active : ClearKeys(t, k)
  \/ \E t \in Threads : \E k \in Active : ClearCompositions(t, k)

SpecConc == InitConc /\ [][NextConc]_vars

-----------------------------------------------------------------------------
(* The same calls, on the class of any kind, AtomicGroup included, with     *)
(* every thread scheduled fairly: a thread that can take its next statement *)
(* takes it, and a thread waiting for a lock that is released again and     *)
(* again gets it.                                                           *)

LiveKinds == ConcKinds \cup {"G"}

InitLive ==
  /\ scenario \in LiveKinds
  /\ InitClasses({scenario})
  /\ result = NoResult
  /\ arg = None
  /\ InitThreads

\* A statement of thread t's call other than the with statement.
Statement(t) ==
  \/ TestRegistry(t) \/ SetRegistry(t) \/ TestKeys(t) \/ SetKeys(t)
  \/ PublishComposition(t)
  \/ \E k \in Active :
       \/ Match(t, k) \/ InitInstance(t, k) \/ CheckKeys(t, k)
       \/ AppendInstance(t, k) \/ PublishKey(t, k)
       \/ ClearRegistry(t, k) \/ ClearKeys(t, k) \/ ClearCompositions(t, k)

FairScheduling ==
  \A t \in Threads :
    /\ WF_vars(Statement(t))
    /\ SF_vars(\E k \in Active : Acquire(t, k))

SpecLive == InitLive /\ [][NextConc]_vars /\ FairScheduling

-----------------------------------------------------------------------------
(* Notions the claims are stated with *)

\* The class variables of kind k after the step.
ClassOfNext(k) ==
  ClassState(registry'[k], key_dictionary'[k], composition_dictionary'[k], generation'[k])

\* The identifiers under which the code registers entity e: the keys of
\* generate_key (Base), the symbol (Element, AtomicGroup), the symbol and the
\* (element, valence) pair (ValenceElement).
KeyIds(e) ==
  CASE e.kind = "B" -> {StrId(e.data.keys[j]) : j \in 1..Len(e.data.keys)}
    [] e.kind = "E" -> {StrId(e.symbol)}
    [] e.kind = "V" -> {StrId(e.symbol), TupId(<<e.element, e.valence>>)}
    [] e.kind = "G" -> {StrId(e.symbol)}

\* The instance a create of data would build in class state C (or the
\* exception of its derivation).
Candidate(k, C, data) ==
  LET index == Len(C.registry.v) IN
  CASE k = "B" -> Return(BaseInit(index, data))
    [] k = "E" -> Return(ElementInit(index, data))
    [] k = "V" -> Return(ValenceElementInit(index, data))
    [] k = "G" -> AtomicGroupInit(index, data)

\* Identifier id is in the key map it belongs to.
Present(C, id) ==
  IF id.type = "tuple" THEN Has(C.composition_dictionary, id.t)
  ELSE Has(C.key_dictionary.v, id.s)

\* The candidate of data derives a key that a key map of C holds.
DerivesPresentKey(k, C, data) ==
  LET c == Candidate(k, C, data) IN
  /\ ~c.raised
  /\ \E id \in KeyIds(Val(c.value)) : Present(C, id)

\* cls(identifier) on class state C: the lookup's outcome.
Lookup(k, C, identifier) == New(k, C, identifier, None).out

Failed(out, exc) == out.raised /\ out.exc = exc

-----------------------------------------------------------------------------
(* C1: a create whose candidate derives a key that a key map already holds  *)
(* fails with a key conflict, and leaves the registry list and every key    *)
(* map as they were.                                                        *)
C1_ConflictRejected ==
  [][\A k \in Active : \A data \in Inputs(k) :
        (Create(k, data) /\ DerivesPresentKey(k, ClassOf(k), data))
          => /\ Failed(result'.out, "KeyConflict")
             /\ registry' = registry
             /\ key_dictionary' = key_dictionary
             /\ composition_dictionary' = composition_dictionary]_vars

\* A create has just been rejected for a key conflict in a registry that
\* holds an entity.
C1_Witness ==
  /\ result.op = "create"
  /\ Failed(result.out, "KeyConflict")
  /\ Len(List(scenario)) >= 1

(* C2: every registered entity is returned by a lookup of each of its keys, *)
(* and no two registered entities of the kind share a key.                  *)
C2_KeyRoundTrip ==
  \A k \in Active :
    /\ \A i \in 1..Len(List(k)) : \A id \in KeyIds(List(k)[i]) :
         Lookup(k, ClassOf(k), id) = Return(List(k)[i])
    /\ \A i, j \in 1..Len(List(k)) :
         i # j => KeyIds(List(k)[i]) \cap KeyIds(List(k)[j]) = {}

\* Two valence elements are registered, each under a symbol and a pair.
C2_Witness ==
  /\ scenario = "V"
  /\ Len(List("V")) = 2
  /\ Cardinality(DOMAIN composition_dictionary["V"]) = 2

(* C3: an entity returned by a successful create has its position in the    *)
(* list as index; as long as the registry is not cleared, every entity      *)
(* stays at its index and cls(index) returns it.                            *)
C3_IndexStable ==
  [][\A k \in Active :
        /\ \A data \in Inputs(k) :
             (result'.op = "create" /\ Create(k, data) /\ Returned(result'.out))
               => LET e == Val(result'.out.value) IN
                  /\ e.index = Len(List(k))
                  /\ Len(registry'[k].v) = e.index + 1
                  /\ At(registry'[k].v, e.index) = e
        /\ generation'[k] = generation[k]
             => \A i \in 1..Len(List(k)) :
                  /\ List(k)[i].index = i - 1
                  /\ Lookup(k, ClassOfNext(k), IntId(i - 1)) = Return(List(k)[i])]_vars

\* A second entity has been created and the first is still at index 0.
C3_Witness ==
  /\ result.op = "create"
  /\ Returned(result.out)
  /\ Len(List(scenario)) = 2
  /\ Val(result.out.value).index = 1

(* C4: after clear_data the registry is empty, the lookup of every index    *)
(* and key registered before fails, and the next successful create returns  *)
(* an entity of index 0.                                                    *)
C4_ClearResets ==
  [][\A k \in Active :
        /\ ClearData(k)
             => /\ Len(registry'[k].v) = 0
                /\ \A i \in 1..Len(List(k)) :
                     /\ Lookup(k, ClassOfNext(k), IntId(i - 1)).raised
                     /\ \A id \in KeyIds(List(k)[i]) : Lookup(k, ClassOfNext(k), id).raised
        /\ (Len(List(k)) = 0 /\ result'.op \in {"create", "get_by_index", "get_by_key"})
             => IF result'.op = "create" /\ Returned(result'.out)
                  THEN Val(result'.out.value).index = 0
                  ELSE Len(registry'[k].v) = 0]_vars

\* A registry was cleared and an entity has then been created in it.
C4_Witness ==
  /\ generation[scenario] = 1
  /\ result.op = "create"
  /\ Returned(result.out)
  /\ Val(result.out.value).index = 0
  /\ Len(List(scenario)) = 1

-----------------------------------------------------------------------------
(* Threads *)

\* Thread t's last call was a create that returned an instance.
Created(t) == outcome[t].op = "create" /\ Returned(outcome[t].out)

\* The instance thread t's create returned.
CreatedBy(t) == Val(outcome[t].out.value)

\* Entity e is registered at its index.
RegisteredAt(k, e) == e.index < Len(List(k)) /\ At(List(k), e.index) = e

\* C5: while a thread is inside a creation that has built its instance, a
\* lookup of the instance by its index returns it exactly when a lookup by
\* each of its keys does.
C5_NoPartialPublication ==
  \A k \in Active : \A t \in Threads :
    (call[t].op = "create" /\ local[t].instance # None) =>
      LET e == Val(local[t].instance) IN
      \A id \in KeyIds(e) :
        (Lookup(k, ClassOf(k), IntId(e.index)) = Return(e))
          <=> (Lookup(k, ClassOf(k), id) = Return(e))

\* C6: what every serial order of create and clear calls gives: a create or
\* clear fails only for a key conflict or invalid data; while no thread holds
\* the lock every entry of a key map leads to an entity that has the key; and
\* with no clear called, the instance a create returned is registered at its
\* index.
C6_SerialOutcome ==
  \A k \in Active :
    /\ \A t \in Threads :
         (outcome[t].op \in {"create", "clear"} /\ outcome[t].out.raised)
           => outcome[t].out.exc \in {"KeyConflict", "InvalidComposition"}
    /\ lock[k] = NoThread =>
         /\ \A key \in DOMAIN key_dictionary[k].v :
              /\ key_dictionary[k].v[key] < Len(List(k))
              /\ StrId(key) \in KeyIds(At(List(k), key_dictionary[k].v[key]))
         /\ \A key \in DOMAIN composition_dictionary[k] :
              /\ composition_dictionary[k][key] < Len(List(k))
              /\ TupId(key) \in KeyIds(At(List(k), composition_dictionary[k][key]))
    /\ \A t \in Threads :
         (generation[k] = 0 /\ Created(t)) => RegisteredAt(k, CreatedBy(t))

\* Every thread's call, in progress or ended, is one of ops.
CallsAmong(ops) == \A t \in Threads : call[t].op \in ops

\* C7: with no clear called and both threads calling create, two creates
\* whose instances share a key have not both returned; a create that failed met a key conflict with a
\* registered entity; a returned instance is found by its index and by each
\* of its keys; and no two registered entities share a key.
C7_OneWinner ==
  \A k \in Active : (generation[k] = 0 /\ CallsAmong({"create"})) =>
    /\ \A t, u \in Threads :
         (t # u /\ Created(t) /\ Created(u))
           => KeyIds(CreatedBy(t)) \cap KeyIds(CreatedBy(u)) = {}
    /\ \A t \in Threads :
         (outcome[t].op = "create" /\ outcome[t].out.raised) =>
           /\ outcome[t].out.exc = "KeyConflict"
           /\ \E i \in 1..Len(List(k)) :
                KeyIds(List(k)[i]) \cap KeyIds(Val(InstanceOf(k, 0, Val(call[t].data)).value)) # {}
    /\ \A t \in Threads : Created(t) =>
         /\ Lookup(k, ClassOf(k), IntId(CreatedBy(t).index)) = Return(CreatedBy(t))
         /\ \A id \in KeyIds(CreatedBy(t)) :
              Lookup(k, ClassOf(k), id) = Return(CreatedBy(t))
    /\ \A i, j \in 1..Len(List(k)) :
         i # j => KeyIds(List(k)[i]) \cap KeyIds(List(k)[j]) = {}

-----------------------------------------------------------------------------
(* Valence of a group, as the contract states it *)

\* The component and the multiplicity of a composition entry: a bare
\* component counts once.
EntryElement(entry) == IF entry.kind = "tuple" THEN entry.element ELSE entry
EntryCount(entry) == IF entry.kind = "tuple" THEN entry.count ELSE 1

\* The valence a component carries: that of a ValenceElement, that of a
\* group (none when indeterminate), none for anything else.
ComponentValence(c) ==
  IF c.kind = "V" THEN Some(c.valence)
  ELSE IF c.kind = "G" THEN c.valence
  ELSE None

IsComponent(c) == c.kind \in {"E", "V", "G"}

AllResolved(elements) ==
  \A i \in 1..Len(elements) : ComponentValence(EntryElement(elements[i])) # None

RECURSIVE SumOver(_, _)
\* The sum of valence * multiplicity over the entries at the positions S,
\* taken in no particular order.
SumOver(elements, S) ==
  IF S = {} THEN 0
  ELSE LET i == CHOOSE j \in S : TRUE IN
    Val(ComponentValence(EntryElement(elements[i]))) * EntryCount(elements[i])
      + SumOver(elements, S \ {i})

Permuted(elements, p) == [i \in 1..Len(elements) |-> elements[p[i]]]

Groups == Registered("G")

\* C8: a registered group created without a valence override, all of whose
\* components have a resolved valence, has the valence sum of vi * mi over
\* its entries, and generate_valence gives the same for every order of the
\* entries.
C8_ValenceAdditive ==
  \A g \in Groups :
    (g.data.valence = None /\ AllResolved(g.composition)) =>
      /\ g.valence = Some(SumOver(g.composition, 1..Len(g.composition)))
      /\ \A p \in Permutations(1..Len(g.composition)) :
           GenerateValence([g.data EXCEPT !.elements = Permuted(g.composition, p)])
             = Return(g.valence)

\* The call created a group of two entries of different valences, one of
\* them counted twice.
C8_Witness ==
  /\ result.op = "create"
  /\ Returned(result.out)
  /\ LET g == Val(result.out.value) IN
       /\ g \in Groups
       /\ g.data.valence = None
       /\ g.composition = <<Tuple(SeedVO, 2), SeedVH>>
       /\ g.valence = Some(0 - 3)

\* C9: a registered group created without a valence override whose
\* composition has a bare Element in some entry has no valence.
C9_BareElementIndeterminate ==
  \A g \in Groups :
    (/\ g.data.valence = None
     /\ \E i \in 1..Len(g.composition) : EntryElement(g.composition[i]).kind = "E")
      => g.valence = None

\* The call created a group whose bare Element comes last, after a counted
\* ValenceElement.
C9_Witness ==
  /\ result.op = "create"
  /\ Returned(result.out)
  /\ LET g == Val(result.out.value) IN
       /\ g \in Groups
       /\ g.data.valence = None
       /\ g.composition = <<Tuple(SeedVO, 2), Tuple(SeedEH, 1)>>
       /\ g.valence = None

\* The call's composition is made of pairs of components, one of them a
\* registered group, and the call overrides nothing.
NestsGroup(data) ==
  /\ data.valence = None
  /\ data.symbol_without_valence = None
  /\ data.symbol = None
  /\ \A i \in 1..Len(data.elements) :
       data.elements[i].kind = "tuple" /\ IsComponent(data.elements[i].element)
  /\ \E i \in 1..Len(data.elements) : data.elements[i].element \in Groups

\* C10: a creation whose composition has a pair (g, m) with g a registered
\* group succeeds; the new group's valence is the sum of valence *
\* multiplicity when every component has one, and none otherwise.
C10_NestedGroupCreated ==
  (result.op = "create" /\ NestsGroup(Val(arg))) =>
    /\ Returned(result.out)
    /\ LET g == Val(result.out.value)
           elements == Val(arg).elements
       IN g.valence = IF AllResolved(elements)
                        THEN Some(SumOver(elements, 1..Len(elements)))
                        ELSE None

\* The values the valence field of a creation record takes: None, the
\* default, and integers.
ValenceField == {None} \cup {Some(v) : v \in {0 - 1, 0, 3}}

\* C11: some value of the valence field is the "no valence" sentinel: every
\* group created with it (under the symbol "-Me") has no valence, whatever
\* its composition.
C11_SentinelIndeterminate ==
  \E s \in ValenceField :
    \A c \in Compositions :
      LET r == New("G", ClassOf("G"), NoIdentifier,
                   Some(AtomicGroupData(c, s, None, Some("-Me"))))
      IN Returned(r.out) => Val(r.out.value).valence = None

\* The class variables of AtomicGroup are as before the creation.
GroupsAsSeeded ==
  /\ registry["G"] = SeedGroups.registry
  /\ key_dictionary["G"] = SeedGroups.key_dictionary
  /\ composition_dictionary["G"] = SeedGroups.composition_dictionary

\* C12: a creation whose composition has a pair with a count of 0 or less
\* fails with the invalid-composition error and registers nothing.
C12_NonPositiveCountRejected ==
  (/\ result.op = "create"
   /\ \E i \in 1..Len(Val(arg).elements) :
        /\ Val(arg).elements[i].kind = "tuple"
        /\ Val(arg).elements[i].count <= 0)
    => /\ Failed(result.out, "InvalidComposition")
       /\ GroupsAsSeeded

\* C13: a creation whose composition has an entry that is no Element,
\* ValenceElement or AtomicGroup (bare or in a pair) fails with the
\* invalid-composition error and registers nothing, whatever the overrides.
C13_NonComponentRejected ==
  (/\ result.op = "create"
   /\ \E i \in 1..Len(Val(arg).elements) :
        ~IsComponent(EntryElement(Val(arg).elements[i])))
    => /\ Failed(result.out, "InvalidComposition")
       /\ GroupsAsSeeded

-----------------------------------------------------------------------------
(* Symbols of a group *)

\* What a component contributes to the base symbol: the symbol of an
\* Element, the symbol of the element under a ValenceElement.
ShortForm(c) ==
  IF c.kind = "E" THEN c.symbol
  ELSE IF c.kind = "V" THEN c.element.symbol
  ELSE ""

RECURSIVE ExpectedBase(_)
\* The short forms of the entries in order, each followed by its count in
\* decimal when the count is greater than 1.
ExpectedBase(elements) ==
  IF elements = <<>> THEN ""
  ELSE LET entry == Head(elements)
           count == EntryCount(entry)
       IN ShortForm(EntryElement(entry))
            \o (IF count > 1 THEN ToString(count) ELSE "")
            \o ExpectedBase(Tail(elements))

\* C14: a registered group created without a base-symbol override has as
\* base symbol the concatenation, in composition order, of the short form of
\* each component followed by its count in decimal exactly when the count
\* is greater than 1.
C14_BaseSymbolConcatenation ==
  \A g \in Groups :
    g.data.symbol_without_valence = None =>
      g.symbol_without_valence = ExpectedBase(g.composition)

\* The call created a group of a pair of count 1 and a pair of count 2.
C14_Witness ==
  /\ result.op = "create"
  /\ Returned(result.out)
  /\ LET g == Val(result.out.value) IN
       /\ g \in Groups
       /\ g.data.symbol_without_valence = None
       /\ g.composition = <<Tuple(SeedVH, 1), Tuple(SeedVO, 2)>>
       /\ g.symbol_without_valence = "HO2"

\* C15: a registered group created without a symbol override has as symbol
\* "-" followed by its base symbol, followed by its valence in parentheses
\* with an explicit sign when the valence is resolved; the symbol is the key
\* the group is registered under.
C15_DisplaySymbolMarked ==
  \A g \in Groups :
    ~Truthy(g.data.symbol) =>
      /\ g.symbol = "-" \o g.symbol_without_valence
                        \o (IF g.valence # None
                              THEN "(" \o FormatSigned(Val(g.valence)) \o ")"
                              ELSE "")
      /\ Has(key_dictionary["G"].v, g.symbol)
      /\ key_dictionary["G"].v[g.symbol] = g.index

-----------------------------------------------------------------------------
(* Batches *)

\* C16: extend_data(data_list) registers the entities of the first n
\* records, in order, after the entities already registered, with
\* consecutive indexes and under their keys; it reports an error exactly
\* when n is less than the number of records, the error being that of the
\* create of record n + 1, and registers nothing for that record or a
\* later one.
C16_ExtendKeepsEarlier ==
  [][\A k \in Active :
        result'.op = "extend" =>
          LET data_list == Val(arg')
              old == registry[k].v
              new == registry'[k].v
              n == Len(new) - Len(old)
          IN /\ n \in 0..Len(data_list)
             /\ SubSeq(new, 1, Len(old)) = old
             /\ \A i \in 1..n :
                  LET e == new[Len(old) + i] IN
                  /\ e.data = data_list[i]
                  /\ e.index = Len(old) + i - 1
                  /\ \A id \in KeyIds(e) : Lookup(k, ClassOfNext(k), id) = Return(e)
             /\ result'.out.raised <=> n < Len(data_list)
             /\ n < Len(data_list) =>
                  New(k, ClassOfNext(k), NoIdentifier, Some(data_list[n + 1])).out
                    = result'.out
    ]_vars

\* A batch of two records on an empty registry created the first and
\* failed on the second.
C16_Witness ==
  /\ result.op = "extend"
  /\ Failed(result.out, "KeyConflict")
  /\ Len(Val(arg)) = 2
  /\ Len(List(scenario)) = 1
  /\ List(scenario)[1].data = Val(arg)[1]

-----------------------------------------------------------------------------
(* Keys of a ValenceElement *)

\* C17: a creation of a ValenceElement whose symbol is in the symbol map, or
\* whose (element, valence) pair is in the composition map, is rejected with
\* a key conflict, and the registry list, the symbol map and the composition
\* map are left as they were.
C17_EitherKeyRejects ==
  [][(scenario = "V" /\ result'.op = "create") =>
        LET data == Val(arg')
            symbol == ValenceElementGenerateSymbol(data)
            pair == <<data.element, data.valence>>
        IN (\/ Has(key_dictionary["V"].v, symbol)
            \/ Has(composition_dictionary["V"], pair))
             => /\ Failed(result'.out, "KeyConflict")
                /\ registry'["V"] = registry["V"]
                /\ key_dictionary'["V"] = key_dictionary["V"]
                /\ composition_dictionary'["V"] = composition_dictionary["V"]
    ]_vars

\* A record with a symbol of its own that no entity has, and the pair of a
\* registered ValenceElement, was rejected.
C17_Witness ==
  /\ scenario = "V"
  /\ result.op = "create"
  /\ Failed(result.out, "KeyConflict")
  /\ Val(arg).symbol = Some("H(+1)")
  /\ ~Has(key_dictionary["V"].v, "H(+1)")
  /\ Has(composition_dictionary["V"], <<Val(arg).element, Val(arg).valence>>)

-----------------------------------------------------------------------------
(* Anonymous elements *)

\* C18: the creation of an Element from a record without a symbol does not
\* fail with a key conflict, whatever the registry holds.
C18_AnonymousNeverConflicts ==
  (/\ scenario = "E"
   /\ result.op = "create"
   /\ ~Truthy(Val(arg).symbol))
    => ~Failed(result.out, "KeyConflict")

-----------------------------------------------------------------------------
(* Kinds *)

\* C19: a call on the class of one kind (clear_data, a creation, extend_data,
\* load_data, a lookup) leaves the registry list and the key maps of every
\* other kind as they were.
C19_OtherKindsUntouched ==
  [][\A k \in Active : \A j \in Kinds \ {k} :
        /\ registry'[j] = registry[j]
        /\ key_dictionary'[j] = key_dictionary[j]
        /\ composition_dictionary'[j] = composition_dictionary[j]
    ]_vars

\* The ValenceElement registry was filled and then cleared, and the Element
\* registry still holds the elements the valence elements were made of.
C19_Witness ==
  /\ scenario = "V"
  /\ result.op = "clear"
  /\ generation["V"] = 1
  /\ List("V") = <<>>
  /\ registry["E"] = SeedElements.registry
  /\ key_dictionary["E"] = SeedElements.key_dictionary

-----------------------------------------------------------------------------
(* Lookup by index *)

\* C20: cls(i) returns the entity at position i when 0 <= i < len(registry)
\* and fails with IndexError for every other integer i; either way the
\* entities of the registry list and the entries of the key maps are what
\* they were.
C20_IndexLookup ==
  [][\A k \in Active : \A i \in (0 - 1)..MaxReg :
        GetByIndex(k, i) =>
          /\ (0 <= i /\ i < Len(List(k))) => result'.out = Return(At(List(k), i))
          /\ ~(0 <= i /\ i < Len(List(k))) => Failed(result'.out, "IndexError")
          /\ registry'[k].v = registry[k].v
          /\ key_dictionary'[k].v = key_dictionary[k].v
          /\ composition_dictionary'[k] = composition_dictionary[k]
    ]_vars

\* A lookup by index failed on a registry that was cleared.
C20_Witness ==
  /\ result.op = "get_by_index"
  /\ Failed(result.out, "IndexError")
  /\ generation[scenario] = 1
  /\ List(scenario) = <<>>

-----------------------------------------------------------------------------
(* Loading *)

\* Creating the records of data_list one after the other in the cleared
\* registry of kind k succeeds for every record.
CreatesAll(k, data_list) ==
  Returned(ExtendData(k, Clear(k, ClassOf(k)), data_list).out)

\* The string keys and the tuple keys of the entities of a list.
SymbolKeys(list) ==
  {id.s : id \in {x \in UNION {KeyIds(list[i]) : i \in 1..Len(list)} : x.type = "str"}}
PairKeys(list) ==
  {id.t : id \in {x \in UNION {KeyIds(list[i]) : i \in 1..Len(list)} : x.type = "tuple"}}

\* C21: load_data(data_list), for a data_list whose records all create
\* successfully one after the other from an empty registry, returns and
\* leaves a registry of exactly the entities of data_list, in order, with
\* the indexes 0..n-1, and key maps of exactly their keys, each mapped to
\* the index of its entity, whatever the registry held before.
C21_LoadReplaces ==
  [][\A k \in Active : \A n \in 0..MaxBatch : \A data_list \in Lists(Inputs(k), n) :
        ((Load(k, data_list) \/ LoadMissing(k, data_list)) /\ CreatesAll(k, data_list)) =>
          LET new == registry'[k].v
          IN /\ Returned(result'.out)
             /\ Len(new) = Len(data_list)
             /\ \A i \in 1..Len(new) :
                  /\ new[i].data = data_list[i]
                  /\ new[i].index = i - 1
                  /\ \A id \in KeyIds(new[i]) :
                       Lookup(k, ClassOfNext(k), id) = Return(new[i])
             /\ DOMAIN key_dictionary'[k].v = SymbolKeys(new)
             /\ DOMAIN composition_dictionary'[k] = PairKeys(new)
    ]_vars

-----------------------------------------------------------------------------
(* Lookup of a group by its composition *)

\* C22: for every registered group the composition map holds the group's
\* composition, mapped to the group's index, and AtomicGroup(composition)
\* returns the group.
C22_RetrievableByComposition ==
  \A g \in Groups :
    /\ Has(composition_dictionary["G"], g.composition)
    /\ composition_dictionary["G"][g.composition] = g.index
    /\ Lookup("G", ClassOf("G"), TupId(g.composition)) = Return(g)

-----------------------------------------------------------------------------
(* Termination of the calls *)

\* C23: under fair scheduling every create and every clear a thread has
\* called returns, with a result or an error.
C23_CallsReturn ==
  \A t \in Threads :
    (pc[t] # "idle" /\ call[t].op \in {"create", "clear"}) ~> (pc[t] = "idle")

\* A thread holds the lock of AtomicGroup after the create of the other
\* thread failed on a derivation inside the with block.
C23_Witness ==
  /\ scenario = "G"
  /\ pc["t1"] = "idle"
  /\ outcome["t1"] = Result("create", Raise("InvalidComposition"))
  /\ lock["G"] = "t2"
  /\ call["t2"].op \in {"create", "clear"}

=============================================================================
